---- MODULE Spec2Model ----
(***************************************************************************)
(* Scalar expression core of FnckSQL (src/expression/mod.rs): the          *)
(* ScalarExpression algebra, the tree walkers, the reference rewriter      *)
(* (try_reference) and the evaluator binder (bind_evaluator).              *)
(*                                                                         *)
(* An expression is a record whose "kind" field names the variant and      *)
(* whose other fields are the variant's fields, named as in the source.    *)
(* Vec fields are sequences, Option fields hold None when absent.          *)
(***************************************************************************)
EXTENDS Integers, Sequences, FiniteSets, TLC

VARIABLES
    expr,          \* the tree the caller holds (the &mut self of the mutating calls)
    output_exprs,  \* the output list of the child plan node, fixed per behaviour
    before,        \* the tree as it was when the last call started
    last,          \* the last call made on the tree
    result,        \* how the last call ended: its status or string result, or the abort
    returned,      \* the expression, list or operator the last call returned, if any
    calls,         \* number of mutating calls made so far
    factory        \* the evaluator factory's lookup table (a stateless collaborator)

vars == <<expr, output_exprs, before, last, result, returned, calls, factory>>

\* Longest output list and longest sequence of mutating calls explored.
MaxOut == 2
MaxCalls == 2
\* Longest stream of operator tokens the translator converts.
MaxTokens == 3

None == [kind |-> "None"]

(***************************************************************************)
(* External contracts: logical types, catalog columns, values, aggregate   *)
(* kinds and the evaluator factory.                                        *)
(***************************************************************************)

SignedTypes == {"Tinyint", "Smallint", "Integer", "Bigint"}
UnsignedTypes == {"UTinyint", "USmallint", "UInteger", "UBigint"}
NumericTypes == SignedTypes \cup UnsignedTypes \cup {"Double"}

is_unsigned_numeric(t) == t \in UnsignedTypes

\* Width rank of an integer type.
Width(t) ==
    CASE t \in {"Tinyint", "UTinyint"} -> 1
      [] t \in {"Smallint", "USmallint"} -> 2
      [] t \in {"Integer", "UInteger"} -> 3
      [] t \in {"Bigint", "UBigint"} -> 4
      [] OTHER -> 5

SignedOfWidth(w) ==
    CASE w = 1 -> "Tinyint" [] w = 2 -> "Smallint" [] w = 3 -> "Integer"
      [] w = 4 -> "Bigint" [] OTHER -> "Double"

\* Implicit promotion a -> b between distinct numeric types.
can_implicit_cast(a, b) ==
    \/ b = "Double" /\ a \in NumericTypes
    \/ a \in SignedTypes /\ b \in SignedTypes /\ Width(a) < Width(b)
    \/ a \in UnsignedTypes /\ b \in UnsignedTypes /\ Width(a) < Width(b)
    \/ a \in UnsignedTypes /\ b \in SignedTypes /\ Width(a) < Width(b)

\* The SQL-promotion join of two types; "TypeMismatch" when incompatible.
max_logical_type(a, b) ==
    IF a = b THEN a
    ELSE IF a \in NumericTypes /\ b \in NumericTypes THEN
        IF can_implicit_cast(a, b) THEN b
        ELSE IF can_implicit_cast(b, a) THEN a
        ELSE SignedOfWidth((IF Width(a) > Width(b) THEN Width(a) ELSE Width(b)) + 1)
    ELSE "TypeMismatch"

\* A catalog column: name, owning table (None-like "" for a synthetic column), datatype.
Column(name, table, datatype) == [name |-> name, table |-> table, datatype |-> datatype]

\* ColumnCatalog::full_name: the fully-qualified name.
full_name(col) == IF col.table = "" THEN col.name ELSE col.table \o "." \o col.name

\* ColumnCatalog::summary: the identity of a column, its name and its relation.
summary(col) == [name |-> col.name, relation |-> col.table]

\* ColumnCatalog::new(name, nullable, desc): a fresh column bound to no table.
ColumnCatalog_new(name, datatype) == Column(name, "", datatype)

\* AggKind::allow_distinct.
allow_distinct(kind) == kind \in {"Count", "Sum"}

ArithmeticOps == {"Plus", "Minus", "Multiply", "Divide", "Modulo"}
ComparisonOps == {"Gt", "Lt", "GtEq", "LtEq", "Eq", "NotEq"}
LogicOps == {"And", "Or", "Xor"}
StringOps == {"StringConcat", "Like", "NotLike"}

\* EvaluatorFactory::binary_create: the evaluator for (ty, op), or no entry.
binary_create(ty, op) ==
    IF \/ ty \in NumericTypes /\ op \in ArithmeticOps \cup ComparisonOps
       \/ ty = "Boolean" /\ op \in LogicOps \cup {"Eq", "NotEq"}
       \/ ty = "Varchar" /\ op \in StringOps \cup ComparisonOps
    THEN [kind |-> "BinaryEvaluator", ty |-> ty, op |-> op]
    ELSE [kind |-> "UnsupportedOperator"]

\* EvaluatorFactory::unary_create: the evaluator for (ty, op), or no entry.  Whether
\* the table holds entries for the unsigned types is the factory's own choice.
unary_create(ty, op) ==
    IF \/ ty \in SignedTypes \cup {"Double"} /\ op \in {"Plus", "Minus"}
       \/ ty \in UnsignedTypes /\ op \in {"Plus", "Minus"} /\ factory.unsigned_unary
       \/ ty = "Boolean" /\ op = "Not"
    THEN [kind |-> "UnaryEvaluator", ty |-> ty, op |-> op]
    ELSE [kind |-> "UnsupportedOperator"]

(***************************************************************************)
(* The expression algebra: one constructor per variant used below.         *)
(***************************************************************************)

Constant(text, ty) == [kind |-> "Constant", value |-> [text |-> text, logical_type |-> ty]]
ColumnRef(col) == [kind |-> "ColumnRef", col |-> col]
AliasName(e, name) == [kind |-> "Alias", expr |-> e, alias |-> [kind |-> "Name", name |-> name]]
AliasExpr(e, a) == [kind |-> "Alias", expr |-> e, alias |-> [kind |-> "Expr", expr |-> a]]
TypeCast(e, ty) == [kind |-> "TypeCast", expr |-> e, ty |-> ty]
IsNull(negated, e) == [kind |-> "IsNull", negated |-> negated, expr |-> e]
Unary(op, e, ty) == [kind |-> "Unary", op |-> op, expr |-> e, evaluator |-> None, ty |-> ty]
Binary(op, l, r, ty) ==
    [kind |-> "Binary", op |-> op, left_expr |-> l, right_expr |-> r,
     evaluator |-> None, ty |-> ty]
AggCall(distinct, k, args, ty) ==
    [kind |-> "AggCall", distinct |-> distinct, agg_kind |-> k, args |-> args, ty |-> ty]
Reference(e, pos) == [kind |-> "Reference", expr |-> e, pos |-> pos]
Tuple(args) == [kind |-> "Tuple", args |-> args]
Empty == [kind |-> "Empty"]
IfNull(l, r, ty) == [kind |-> "IfNull", left_expr |-> l, right_expr |-> r, ty |-> ty]
NullIf(l, r, ty) == [kind |-> "NullIf", left_expr |-> l, right_expr |-> r, ty |-> ty]

In(negated, e, args) == [kind |-> "In", negated |-> negated, expr |-> e, args |-> args]
Between(negated, e, l, r) ==
    [kind |-> "Between", negated |-> negated, expr |-> e, left_expr |-> l, right_expr |-> r]
SubString(e, for_expr, from_expr) ==
    [kind |-> "SubString", expr |-> e, for_expr |-> for_expr, from_expr |-> from_expr]
Position(e, in_expr) == [kind |-> "Position", expr |-> e, in_expr |-> in_expr]
Trim(e, what, where) ==
    [kind |-> "Trim", expr |-> e, trim_what_expr |-> what, trim_where |-> where]
ScalaFunction(args, name, ty) ==
    [kind |-> "ScalaFunction", args |-> args, inner |-> [name |-> name, return_type |-> ty]]
If(c, l, r, ty) ==
    [kind |-> "If", condition |-> c, left_expr |-> l, right_expr |-> r, ty |-> ty]
Coalesce(exprs, ty) == [kind |-> "Coalesce", exprs |-> exprs, ty |-> ty]
CaseWhen(operand, pairs, else_expr, ty) ==
    [kind |-> "CaseWhen", operand_expr |-> operand, expr_pairs |-> pairs,
     else_expr |-> else_expr, ty |-> ty]

TableFunction(args, name) == [kind |-> "TableFunction", args |-> args, inner |-> [name |-> name]]

IsSome(x) == x.kind # "None"

(***************************************************************************)
(* The sub-expressions held by a node.                                     *)
(***************************************************************************)

Range(f) == {f[i] : i \in DOMAIN f}
Present(S) == {x \in S : IsSome(x)}

\* The sub-expressions a mutating walker descends into from node e: none below a
\* Reference, and not the expression of an expression alias.
WalkerChildren(e) ==
    CASE e.kind \in {"Alias", "TypeCast", "IsNull", "Unary"} -> {e.expr}
      [] e.kind \in {"Binary", "IfNull", "NullIf"} -> {e.left_expr, e.right_expr}
      [] e.kind \in {"AggCall", "Tuple", "ScalaFunction", "TableFunction"} -> Range(e.args)
      [] e.kind = "Coalesce" -> Range(e.exprs)
      [] e.kind = "In" -> {e.expr} \cup Range(e.args)
      [] e.kind \in {"Between", "If"} ->
            {e.left_expr, e.right_expr}
                \cup (IF e.kind = "If" THEN {e.condition} ELSE {e.expr})
      [] e.kind = "SubString" -> Present({e.expr, e.for_expr, e.from_expr})
      [] e.kind = "Position" -> {e.expr, e.in_expr}
      [] e.kind = "Trim" -> Present({e.expr, e.trim_what_expr})
      [] e.kind = "CaseWhen" ->
            Present({e.operand_expr, e.else_expr})
                \cup UNION {{p[1], p[2]} : p \in Range(e.expr_pairs)}
      [] OTHER -> {}

\* Every sub-expression held in a field of node e.
AllChildren(e) ==
    WalkerChildren(e)
        \cup (IF e.kind = "Reference" THEN {e.expr} ELSE {})
        \cup (IF e.kind = "Alias" /\ e.alias.kind = "Expr" THEN {e.alias.expr} ELSE {})

(***************************************************************************)
(* Display of the operator tokens.                                         *)
(***************************************************************************)

\* impl Display for BinaryOperator (Like/NotLike taken without an escape character).
BinaryOperatorDisplay(op) ==
    CASE op = "Plus" -> "+" [] op = "Minus" -> "-" [] op = "Multiply" -> "*"
      [] op = "Divide" -> "/" [] op = "Modulo" -> "mod" [] op = "StringConcat" -> "&"
      [] op = "Gt" -> ">" [] op = "Lt" -> "<" [] op = "GtEq" -> ">=" [] op = "LtEq" -> "<="
      [] op = "Spaceship" -> "<=>" [] op = "Eq" -> "=" [] op = "NotEq" -> "!="
      [] op = "And" -> "&&" [] op = "Or" -> "||" [] op = "Xor" -> "^"
      [] op = "Like" -> "like" [] op = "NotLike" -> "not like"

\* impl Display for UnaryOperator.
UnaryOperatorDisplay(op) ==
    CASE op = "Plus" -> "+" [] op = "Minus" -> "-" [] op = "Not" -> "!"

(***************************************************************************)
(* return_type.  "unreachable" stands for the abort of unreachable!().     *)
(***************************************************************************)

RECURSIVE return_type(_)

\* A return_type that takes a Tuple for a node without a type.
return_type_tuple_undefined(e) ==
    CASE e.kind = "Constant" -> e.value.logical_type
      [] e.kind = "ColumnRef" -> e.col.datatype
      [] e.kind \in {"Binary", "Unary", "TypeCast", "AggCall", "If", "IfNull", "NullIf",
                     "Coalesce", "CaseWhen"} -> e.ty
      [] e.kind \in {"IsNull", "In", "Between"} -> "Boolean"
      [] e.kind \in {"SubString", "Trim"} -> "Varchar"
      [] e.kind = "Position" -> "Integer"
      [] e.kind \in {"Alias", "Reference"} -> return_type(e.expr)
      [] e.kind \in {"Empty", "TableFunction", "Tuple"} -> "unreachable"
      [] e.kind = "ScalaFunction" -> e.inner.return_type

return_type(e) ==
    CASE e.kind = "Constant" -> e.value.logical_type
      [] e.kind = "ColumnRef" -> e.col.datatype
      [] e.kind \in {"Binary", "Unary", "TypeCast", "AggCall", "If", "IfNull", "NullIf",
                     "Coalesce", "CaseWhen"} -> e.ty
      [] e.kind \in {"IsNull", "In", "Between"} -> "Boolean"
      [] e.kind = "SubString" -> "Varchar"
      [] e.kind = "Position" -> "Integer"
      [] e.kind = "Trim" -> "Varchar"
      [] e.kind \in {"Alias", "Reference"} -> return_type(e.expr)
      [] e.kind \in {"Empty", "TableFunction"} -> "unreachable"
      [] e.kind = "Tuple" -> "Tuple"
      [] e.kind = "ScalaFunction" -> e.inner.return_type

(***************************************************************************)
(* output_name: the canonical rendering, the rewriter's matching key.      *)
(***************************************************************************)

RECURSIVE Join(_, _)
\* Itertools::join over already rendered names.
Join(names, sep) ==
    IF names = <<>> THEN ""
    ELSE IF Len(names) = 1 THEN names[1]
    ELSE names[1] \o sep \o Join(Tail(names), sep)

RECURSIVE output_name(_)
output_name(e) ==
    LET names(args) == [i \in DOMAIN args |-> output_name(args[i])]
        tagged(tag, x) == IF IsSome(x) THEN ", " \o tag \o ": " \o output_name(x) ELSE ""
        case_op(tag, x) == IF IsSome(x) THEN tag \o output_name(x) \o " " ELSE ""
    IN
    CASE e.kind = "Constant" -> e.value.text
      [] e.kind = "ColumnRef" -> full_name(e.col)
      [] e.kind = "Alias" ->
            IF e.alias.kind = "Name" THEN e.alias.name
            ELSE "(" \o output_name(e.expr) \o ") as (" \o output_name(e.alias.expr) \o ")"
      [] e.kind = "TypeCast" -> "cast (" \o output_name(e.expr) \o " as " \o e.ty \o ")"
      [] e.kind = "IsNull" ->
            output_name(e.expr) \o " " \o (IF e.negated THEN "is not null" ELSE "is null")
      [] e.kind = "Unary" -> UnaryOperatorDisplay(e.op) \o output_name(e.expr)
      [] e.kind = "Binary" ->
            "(" \o output_name(e.left_expr) \o " " \o BinaryOperatorDisplay(e.op) \o " "
                \o output_name(e.right_expr) \o ")"
      [] e.kind = "AggCall" ->
            e.agg_kind \o "("
                \o (IF allow_distinct(e.agg_kind) /\ e.distinct THEN "distinct " ELSE "")
                \o Join(names(e.args), ", ") \o ")"
      [] e.kind = "In" ->
            output_name(e.expr) \o " " \o (IF e.negated THEN "not in" ELSE "in") \o " ("
                \o Join(names(e.args), ", ") \o ")"
      [] e.kind = "Between" ->
            output_name(e.expr) \o " " \o (IF e.negated THEN "not between" ELSE "between")
                \o " [" \o output_name(e.left_expr) \o ", " \o output_name(e.right_expr) \o "]"
      [] e.kind = "SubString" ->
            "substring(" \o output_name(e.expr) \o tagged("from", e.from_expr)
                \o tagged("for", e.for_expr) \o ")"
      [] e.kind = "Position" ->
            "position(" \o output_name(e.expr) \o " in " \o output_name(e.in_expr) \o ")"
      [] e.kind = "Trim" ->
            LET what == IF IsSome(e.trim_what_expr) THEN output_name(e.trim_what_expr) ELSE " "
                where ==
                    CASE e.trim_where = "Both" -> "both '" \o what \o "' from"
                      [] e.trim_where = "Leading" -> "leading '" \o what \o "' from"
                      [] e.trim_where = "Trailing" -> "trailing '" \o what \o "' from"
                      [] OTHER -> IF what = "" THEN "" ELSE "'" \o what \o "' from"
            IN "trim(" \o where \o " " \o output_name(e.expr) \o ")"
      [] e.kind = "Reference" -> output_name(e.expr)
      [] e.kind = "Empty" -> "unreachable"
      [] e.kind = "Tuple" -> "(" \o Join(names(e.args), ", ") \o ")"
      [] e.kind \in {"ScalaFunction", "TableFunction"} ->
            e.inner.name \o "(" \o Join(names(e.args), ", ") \o ")"
      [] e.kind = "If" ->
            "if " \o output_name(e.condition) \o " (" \o output_name(e.left_expr) \o ", "
                \o output_name(e.right_expr) \o ")"
      [] e.kind = "IfNull" ->
            "ifnull(" \o output_name(e.left_expr) \o ", " \o output_name(e.right_expr) \o ")"
      [] e.kind = "NullIf" ->
            "ifnull(" \o output_name(e.left_expr) \o ", " \o output_name(e.right_expr) \o ")"
      [] e.kind = "Coalesce" -> "coalesce(" \o Join(names(e.exprs), ", ") \o ")"
      [] e.kind = "CaseWhen" ->
            "case " \o case_op("", e.operand_expr)
                \o Join([i \in DOMAIN e.expr_pairs |->
                            "when " \o output_name(e.expr_pairs[i][1]) \o " then "
                                \o output_name(e.expr_pairs[i][2])], " ")
                \o " " \o case_op("else ", e.else_expr) \o "end"

(***************************************************************************)
(* output_column and the summary the rewriter matches on.                  *)
(***************************************************************************)

RECURSIVE output_column(_)
output_column(e) ==
    CASE e.kind = "ColumnRef" -> e.col
      [] e.kind = "Alias" /\ e.alias.kind = "Expr" -> output_column(e.alias.expr)
      [] e.kind = "Reference" -> output_column(e.expr)
      [] OTHER -> ColumnCatalog_new(output_name(e), return_type(e))

RECURSIVE output_name_unreachable(_)
\* output_name aborts when the rendering reaches an Empty node; a name alias renders
\* its label without visiting the aliased expression.
output_name_unreachable(e) ==
    \/ e.kind = "Empty"
    \/ /\ ~(e.kind = "Alias" /\ e.alias.kind = "Name")
       /\ \E c \in AllChildren(e) : output_name_unreachable(c)

RECURSIVE output_column_unreachable(_)
\* output_column aborts when the name or the type of the synthesised column does.
output_column_unreachable(e) ==
    CASE e.kind = "ColumnRef" -> FALSE
      [] e.kind = "Alias" /\ e.alias.kind = "Expr" -> output_column_unreachable(e.alias.expr)
      [] e.kind = "Reference" -> output_column_unreachable(e.expr)
      [] OTHER -> output_name_unreachable(e) \/ return_type(e) = "unreachable"

(***************************************************************************)
(* The in-place wrap shared by the rewriter and the binder.                *)
(***************************************************************************)

\* A swap that hands back the sentinel it stored instead of the old content.
mem_replace_sentinel(e) == Empty

\* mem::replace(slot, Empty): the value moved out of the slot.  The slot holds Empty
\* until the wrapper built around the moved value is written back, which the same
\* statement does.
mem_replace(e) == e

(***************************************************************************)
(* try_reference: the reference rewriter.                                  *)
(***************************************************************************)

RECURSIVE find_position_from(_, _, _)
find_position_from(exprs, self_summary, i) ==
    IF i > Len(exprs) THEN -1
    ELSE IF self_summary = summary(output_column(exprs[i])) THEN i - 1
    ELSE find_position_from(exprs, self_summary, i + 1)

\* A rewriter that keeps the last matching entry instead of the first.
find_position_last(exprs, self_summary) ==
    LET hits == {i \in DOMAIN exprs : summary(output_column(exprs[i])) = self_summary}
    IN IF hits = {} THEN -1 ELSE (CHOOSE i \in hits : \A j \in hits : j <= i) - 1

\* A rewriter that numbers the output entries from 1.
find_position_one_based(exprs, self_summary) ==
    LET p == find_position_from(exprs, self_summary, 1) IN IF p < 0 THEN -1 ELSE p + 1

\* Itertools::find_position over output_exprs: the 0-based position of the first
\* entry whose output-column summary equals self_summary, -1 when there is none.
find_position(exprs, self_summary) == find_position_from(exprs, self_summary, 1)

RECURSIVE try_reference(_, _)
try_reference(e, exprs) ==
    LET pos == find_position(exprs, summary(output_column(e)))
        each(args) == [i \in DOMAIN args |-> try_reference(args[i], exprs)]
        opt(x) == IF IsSome(x) THEN try_reference(x, exprs) ELSE x
    IN
    IF pos >= 0 THEN [kind |-> "Reference", expr |-> mem_replace(e), pos |-> pos]
    ELSE
    CASE e.kind \in {"Alias", "TypeCast", "IsNull", "Unary"} ->
            [e EXCEPT !.expr = try_reference(@, exprs)]
      [] e.kind \in {"Binary", "IfNull", "NullIf"} ->
            [e EXCEPT !.left_expr = try_reference(@, exprs),
                      !.right_expr = try_reference(@, exprs)]
      [] e.kind \in {"AggCall", "Tuple", "ScalaFunction", "TableFunction"} ->
            [e EXCEPT !.args = each(@)]
      [] e.kind = "Coalesce" -> [e EXCEPT !.exprs = each(@)]
      [] e.kind = "In" -> [e EXCEPT !.expr = try_reference(@, exprs), !.args = each(@)]
      [] e.kind = "Between" ->
            [e EXCEPT !.expr = try_reference(@, exprs),
                      !.left_expr = try_reference(@, exprs),
                      !.right_expr = try_reference(@, exprs)]
      [] e.kind = "SubString" ->
            [e EXCEPT !.expr = try_reference(@, exprs), !.for_expr = opt(@),
                      !.from_expr = opt(@)]
      [] e.kind = "Position" ->
            [e EXCEPT !.expr = try_reference(@, exprs), !.in_expr = try_reference(@, exprs)]
      [] e.kind = "Trim" ->
            [e EXCEPT !.expr = try_reference(@, exprs), !.trim_what_expr = opt(@)]
      [] e.kind = "Empty" -> e
      [] e.kind \in {"Constant", "ColumnRef", "Reference"} -> e
      [] e.kind = "If" ->
            [e EXCEPT !.condition = try_reference(@, exprs),
                      !.left_expr = try_reference(@, exprs),
                      !.right_expr = try_reference(@, exprs)]
      [] e.kind = "CaseWhen" ->
            [e EXCEPT !.operand_expr = opt(@),
                      !.expr_pairs = [i \in DOMAIN @ |->
                            <<try_reference(@[i][1], exprs), try_reference(@[i][2], exprs)>>],
                      !.else_expr = opt(@)]

RECURSIVE try_reference_unreachable(_, _)
\* The call aborts when output_column aborts on a node the walk visits (an Empty
\* node, or one whose return type is undefined) or on an output entry it scans.
try_reference_unreachable(e, exprs) ==
    LET pos == find_position(exprs, summary(output_column(e)))
        scanned == IF pos >= 0 THEN {i \in DOMAIN exprs : i <= pos + 1} ELSE DOMAIN exprs
    IN \/ output_column_unreachable(e)
       \/ \E i \in scanned : output_column_unreachable(exprs[i])
       \/ pos < 0 /\ \E c \in WalkerChildren(e) : try_reference_unreachable(c, exprs)

(***************************************************************************)
(* bind_evaluator: the evaluator binder.  A call returns the tree as the   *)
(* in-place mutation left it, together with Ok or the error that the `?`   *)
(* operator propagated, or with "unreachable" when the call aborted.        *)
(***************************************************************************)

Ok == "Ok"

\* A binder that never equalises the operand types.
fn_cast_never(e, ty) == e

\* A binder that casts every operand, whatever its type.
fn_cast_always(e, ty) == [kind |-> "TypeCast", expr |-> e, ty |-> ty]

\* fn_cast: wrap expr in a cast to ty unless it already returns ty.
fn_cast(e, ty) ==
    IF return_type(e) # ty THEN [kind |-> "TypeCast", expr |-> mem_replace(e), ty |-> ty]
    ELSE e

\* A binder whose cast keeps the unsigned type.
signed_of_same(ty) == ty

\* The signed counterpart chosen for an unsigned operand of a unary operator.
signed_of(ty) ==
    CASE ty = "UTinyint" -> "Tinyint"
      [] ty = "USmallint" -> "Smallint"
      [] ty = "UInteger" -> "Integer"
      [] ty = "UBigint" -> "Bigint"

RECURSIVE bind_evaluator(_), bind_each(_)

\* A binder that binds the first child of a node and forgets the others.
bind_each_head_only(children) ==
    IF children = <<>> THEN [exprs |-> <<>>, err |-> Ok]
    ELSE LET h == IF IsSome(Head(children)) THEN bind_evaluator(Head(children))
                  ELSE [expr |-> Head(children), err |-> Ok]
         IN [exprs |-> <<h.expr>> \o Tail(children), err |-> h.err]

\* A run of `child.bind_evaluator()?` statements over the present children, in
\* order: the first error ends the run and leaves the later children untouched.
bind_each(children) ==
    IF children = <<>> THEN [exprs |-> <<>>, err |-> Ok]
    ELSE LET h == IF IsSome(Head(children)) THEN bind_evaluator(Head(children))
                  ELSE [expr |-> Head(children), err |-> Ok]
         IN IF h.err # Ok THEN [exprs |-> <<h.expr>> \o Tail(children), err |-> h.err]
            ELSE LET t == bind_each(Tail(children))
                 IN [exprs |-> <<h.expr>> \o t.exprs, err |-> t.err]

\* The Binary arm.
bind_binary(e) ==
    LET c == bind_each(<<e.left_expr, e.right_expr>>)
        bound == [e EXCEPT !.left_expr = c.exprs[1], !.right_expr = c.exprs[2]]
        ty == max_logical_type(return_type(c.exprs[1]), return_type(c.exprs[2]))
        cast == [bound EXCEPT !.left_expr = fn_cast(@, ty), !.right_expr = fn_cast(@, ty)]
        ev == binary_create(ty, e.op)
    IN IF c.err # Ok THEN [expr |-> bound, err |-> c.err]
       ELSE IF "unreachable" \in {return_type(c.exprs[1]), return_type(c.exprs[2])}
            THEN [expr |-> bound, err |-> "unreachable"]
       ELSE IF ty = "TypeMismatch" THEN [expr |-> bound, err |-> "TypeMismatch"]
       ELSE IF ev.kind = "UnsupportedOperator" THEN [expr |-> cast, err |-> ev.kind]
       ELSE [expr |-> [cast EXCEPT !.evaluator = ev], err |-> Ok]

\* The Unary arm: ty is read before the operand is wrapped.
bind_unary(e) ==
    LET c == bind_evaluator(e.expr)
        bound == [e EXCEPT !.expr = c.expr]
        ty == return_type(c.expr)
        cast == IF is_unsigned_numeric(ty)
                THEN [bound EXCEPT !.expr = [kind |-> "TypeCast", expr |-> mem_replace(@),
                                             ty |-> signed_of(ty)]]
                ELSE bound
        ev == unary_create(ty, e.op)
    IN IF c.err # Ok THEN [expr |-> bound, err |-> c.err]
       ELSE IF ty = "unreachable" THEN [expr |-> bound, err |-> "unreachable"]
       ELSE IF ev.kind = "UnsupportedOperator" THEN [expr |-> cast, err |-> ev.kind]
       ELSE [expr |-> [cast EXCEPT !.evaluator = ev], err |-> Ok]

bind_evaluator(e) ==
    CASE e.kind = "Binary" -> bind_binary(e)
      [] e.kind = "Unary" -> bind_unary(e)
      [] e.kind \in {"Alias", "TypeCast", "IsNull"} ->
            LET c == bind_evaluator(e.expr)
            IN [expr |-> [e EXCEPT !.expr = c.expr], err |-> c.err]
      [] e.kind \in {"AggCall", "Tuple", "ScalaFunction", "TableFunction"} ->
            LET c == bind_each(e.args)
            IN [expr |-> [e EXCEPT !.args = c.exprs], err |-> c.err]
      [] e.kind = "Coalesce" ->
            LET c == bind_each(e.exprs)
            IN [expr |-> [e EXCEPT !.exprs = c.exprs], err |-> c.err]
      [] e.kind = "In" ->
            LET c == bind_each(<<e.expr>> \o e.args)
            IN [expr |-> [e EXCEPT !.expr = c.exprs[1], !.args = Tail(c.exprs)],
                err |-> c.err]
      [] e.kind = "Between" ->
            LET c == bind_each(<<e.expr, e.left_expr, e.right_expr>>)
            IN [expr |-> [e EXCEPT !.expr = c.exprs[1], !.left_expr = c.exprs[2],
                                   !.right_expr = c.exprs[3]], err |-> c.err]
      [] e.kind = "SubString" ->
            LET c == bind_each(<<e.expr, e.for_expr, e.from_expr>>)
            IN [expr |-> [e EXCEPT !.expr = c.exprs[1], !.for_expr = c.exprs[2],
                                   !.from_expr = c.exprs[3]], err |-> c.err]
      [] e.kind = "Position" ->
            LET c == bind_each(<<e.expr, e.in_expr>>)
            IN [expr |-> [e EXCEPT !.expr = c.exprs[1], !.in_expr = c.exprs[2]],
                err |-> c.err]
      [] e.kind = "Trim" ->
            LET c == bind_each(<<e.expr, e.trim_what_expr>>)
            IN [expr |-> [e EXCEPT !.expr = c.exprs[1], !.trim_what_expr = c.exprs[2]],
                err |-> c.err]
      [] e.kind = "Empty" -> [expr |-> e, err |-> "unreachable"]
      [] e.kind \in {"Constant", "ColumnRef", "Reference"} -> [expr |-> e, err |-> Ok]
      [] e.kind = "If" ->
            LET c == bind_each(<<e.condition, e.left_expr, e.right_expr>>)
            IN [expr |-> [e EXCEPT !.condition = c.exprs[1], !.left_expr = c.exprs[2],
                                   !.right_expr = c.exprs[3]], err |-> c.err]
      [] e.kind \in {"IfNull", "NullIf"} ->
            LET c == bind_each(<<e.left_expr, e.right_expr>>)
            IN [expr |-> [e EXCEPT !.left_expr = c.exprs[1], !.right_expr = c.exprs[2]],
                err |-> c.err]
      [] e.kind = "CaseWhen" ->
            LET flat == <<e.operand_expr>>
                        \o [i \in 1..(2 * Len(e.expr_pairs)) |->
                                e.expr_pairs[(i + 1) \div 2][2 - (i % 2)]]
                        \o <<e.else_expr>>
                c == bind_each(flat)
            IN [expr |-> [e EXCEPT !.operand_expr = c.exprs[1],
                                   !.expr_pairs = [i \in DOMAIN @ |->
                                        <<c.exprs[2 * i], c.exprs[2 * i + 1]>>],
                                   !.else_expr = c.exprs[Len(c.exprs)]],
                err |-> c.err]

(***************************************************************************)
(* has_count_star and has_agg_call.  A call returns "true" or "false", or  *)
(* aborts ("unreachable").  `a || b` and Iterator::any evaluate left to    *)
(* right and stop at the first operand that is true (or that aborts).      *)
(***************************************************************************)

OrElse(x, y) == IF x = "false" THEN y ELSE x

RECURSIVE has_count_star(_), any_count_star(_)

any_count_star(args) ==
    IF args = <<>> THEN "false"
    ELSE OrElse(has_count_star(Head(args)), any_count_star(Tail(args)))

has_count_star(e) ==
    LET opt(x) == IF IsSome(x) THEN has_count_star(x) ELSE "false"
    IN
    CASE e.kind \in {"Alias", "TypeCast", "IsNull", "Unary", "Reference"} ->
            has_count_star(e.expr)
      [] e.kind \in {"Binary", "IfNull", "NullIf"} ->
            OrElse(has_count_star(e.left_expr), has_count_star(e.right_expr))
      [] e.kind \in {"AggCall", "ScalaFunction", "Tuple"} -> any_count_star(e.args)
      [] e.kind = "Coalesce" -> any_count_star(e.exprs)
      [] e.kind \in {"TableFunction", "Empty"} -> "unreachable"
      [] e.kind \in {"Constant", "ColumnRef"} -> "false"
      [] e.kind = "In" -> OrElse(has_count_star(e.expr), any_count_star(e.args))
      [] e.kind = "Between" ->
            OrElse(has_count_star(e.expr),
                   OrElse(has_count_star(e.left_expr), has_count_star(e.right_expr)))
      [] e.kind = "SubString" ->
            OrElse(has_count_star(e.expr), OrElse(opt(e.from_expr), opt(e.for_expr)))
      [] e.kind = "Position" ->
            OrElse(has_count_star(e.expr), has_count_star(e.in_expr))
      [] e.kind = "Trim" -> OrElse(has_count_star(e.expr), opt(e.trim_what_expr))
      [] e.kind = "If" ->
            OrElse(has_count_star(e.condition),
                   OrElse(has_count_star(e.left_expr), has_count_star(e.right_expr)))
      [] e.kind = "CaseWhen" ->
            OrElse(opt(e.operand_expr),
                   OrElse(any_count_star([i \in 1..(2 * Len(e.expr_pairs)) |->
                                e.expr_pairs[(i + 1) \div 2][2 - (i % 2)]]),
                          opt(e.else_expr)))

RECURSIVE has_agg_call(_), any_agg_call(_)

any_agg_call(args) ==
    IF args = <<>> THEN "false"
    ELSE OrElse(has_agg_call(Head(args)), any_agg_call(Tail(args)))

has_agg_call(e) ==
    LET opt(x) == IF IsSome(x) THEN has_agg_call(x) ELSE "false"
    IN
    CASE e.kind = "AggCall" -> "true"
      [] e.kind \in {"Constant", "ColumnRef"} -> "false"
      [] e.kind \in {"Alias", "TypeCast", "IsNull", "Unary"} -> has_agg_call(e.expr)
      [] e.kind \in {"Binary", "IfNull", "NullIf"} ->
            OrElse(has_agg_call(e.left_expr), has_agg_call(e.right_expr))
      [] e.kind = "In" -> OrElse(has_agg_call(e.expr), any_agg_call(e.args))
      [] e.kind = "Between" ->
            OrElse(has_agg_call(e.expr),
                   OrElse(has_agg_call(e.left_expr), has_agg_call(e.right_expr)))
      [] e.kind = "SubString" ->
            OrElse(has_agg_call(e.expr), OrElse(opt(e.for_expr), opt(e.from_expr)))
      [] e.kind = "Position" -> OrElse(has_agg_call(e.expr), has_agg_call(e.in_expr))
      [] e.kind = "Trim" -> OrElse(has_agg_call(e.expr), opt(e.trim_what_expr))
      [] e.kind \in {"Reference", "Empty", "TableFunction"} -> "unreachable"
      [] e.kind \in {"Tuple", "ScalaFunction"} -> any_agg_call(e.args)
      [] e.kind = "Coalesce" -> any_agg_call(e.exprs)
      [] e.kind = "If" ->
            OrElse(has_agg_call(e.condition),
                   OrElse(has_agg_call(e.left_expr), has_agg_call(e.right_expr)))
      [] e.kind = "CaseWhen" ->
            OrElse(opt(e.operand_expr),
                   OrElse(any_agg_call([i \in 1..(2 * Len(e.expr_pairs)) |->
                                e.expr_pairs[(i + 1) \div 2][2 - (i % 2)]]),
                          opt(e.else_expr)))

(***************************************************************************)
(* unpack_alias and unpack_alias_ref.                                      *)
(***************************************************************************)

\* An unpacking that removes the outermost alias only.
unpack_alias_once(e) ==
    IF e.kind = "Alias" /\ e.alias.kind = "Expr" THEN e.alias.expr
    ELSE IF e.kind = "Alias" THEN e.expr
    ELSE e

RECURSIVE unpack_alias(_)
\* The owning form: an expression alias is unpacked through the alias expression,
\* a name alias through the aliased expression.
unpack_alias(e) ==
    IF e.kind = "Alias" /\ e.alias.kind = "Expr" THEN unpack_alias(e.alias.expr)
    ELSE IF e.kind = "Alias" THEN unpack_alias(e.expr)
    ELSE e

RECURSIVE unpack_alias_ref(_)
\* The borrowing form; the borrow it returns is modelled by the node it points to.
unpack_alias_ref(e) ==
    IF e.kind = "Alias" /\ e.alias.kind = "Expr" THEN unpack_alias_ref(e.alias.expr)
    ELSE IF e.kind = "Alias" THEN unpack_alias_ref(e.expr)
    ELSE e

(***************************************************************************)
(* referenced_columns.  A call returns the collected columns, or aborts.   *)
(***************************************************************************)

\* The sub-expressions columns_collect visits from node e, in the order of its calls.
collect_children(e) ==
    LET opt(x) == IF IsSome(x) THEN <<x>> ELSE <<>>
    IN
    CASE e.kind \in {"Alias", "TypeCast", "IsNull", "Unary"} -> <<e.expr>>
      [] e.kind = "Binary" -> <<e.left_expr, e.right_expr>>
      [] e.kind \in {"AggCall", "ScalaFunction", "TableFunction", "Tuple"} -> e.args
      [] e.kind = "Coalesce" -> e.exprs
      [] e.kind = "In" -> <<e.expr>> \o e.args
      [] e.kind = "Between" -> <<e.expr, e.left_expr, e.right_expr>>
      [] e.kind = "SubString" -> <<e.expr>> \o opt(e.for_expr) \o opt(e.from_expr)
      [] e.kind = "Position" -> <<e.expr, e.in_expr>>
      [] e.kind = "Trim" -> <<e.expr>> \o opt(e.trim_what_expr)
      [] e.kind = "Constant" -> <<>>
      [] e.kind = "If" -> <<e.condition, e.left_expr, e.right_expr>>
      [] e.kind \in {"IfNull", "NullIf"} -> <<e.left_expr, e.right_expr>>
      [] e.kind = "CaseWhen" ->
            opt(e.operand_expr)
                \o [i \in 1..(2 * Len(e.expr_pairs)) |->
                        e.expr_pairs[(i + 1) \div 2][2 - (i % 2)]]
                \o opt(e.else_expr)

RECURSIVE columns_collect(_, _), collect_each(_, _)

\* The visits of a run of children, in order: an abort ends the run.
collect_each(children, only_column_ref) ==
    IF children = <<>> THEN [vec |-> <<>>, err |-> Ok]
    ELSE LET h == columns_collect(Head(children), only_column_ref)
         IN IF h.err # Ok THEN h
            ELSE LET t == collect_each(Tail(children), only_column_ref)
                 IN [vec |-> h.vec \o t.vec, err |-> t.err]

\* What one visit pushes onto vec, with Ok or "unreachable".
columns_collect(e, only_column_ref) ==
    LET own == IF only_column_ref THEN <<>> ELSE <<output_column(e)>>
    IN
    IF ~only_column_ref /\ output_column_unreachable(e)
        THEN [vec |-> <<>>, err |-> "unreachable"]
    ELSE IF e.kind = "ColumnRef" THEN [vec |-> own \o <<e.col>>, err |-> Ok]
    ELSE IF e.kind \in {"Reference", "Empty"} THEN [vec |-> own, err |-> "unreachable"]
    ELSE LET c == collect_each(collect_children(e), only_column_ref)
         IN [vec |-> own \o c.vec, err |-> c.err]

referenced_columns(e, only_column_ref) == columns_collect(e, only_column_ref)

(***************************************************************************)
(* The conversions from the parser's operator tokens.                      *)
(***************************************************************************)

\* Tokens of the parser's unary and binary operator enumerations.
SqlUnaryOperator ==
    {"Plus", "Minus", "Not", "PGBitwiseNot", "PGSquareRoot", "PGCubeRoot",
     "PGPostfixFactorial", "PGPrefixFactorial", "PGAbs"}
SqlBinaryOperator ==
    {"Plus", "Minus", "Multiply", "Divide", "Modulo", "StringConcat", "Gt", "Lt", "GtEq",
     "LtEq", "Spaceship", "Eq", "NotEq", "And", "Or", "Xor", "BitwiseOr", "BitwiseAnd",
     "BitwiseXor", "PGBitwiseXor", "PGBitwiseShiftLeft", "PGBitwiseShiftRight",
     "PGRegexMatch", "PGRegexIMatch", "PGRegexNotMatch", "PGRegexNotIMatch",
     "PGCustomBinaryOperator"}

\* impl From<SqlUnaryOperator> for UnaryOperator: the operator, or the abort of
\* unimplemented!().
UnaryOperator_from(value) ==
    CASE value = "Plus" -> "Plus"
      [] value = "Minus" -> "Minus"
      [] value = "Not" -> "Not"
      [] OTHER -> "unimplemented"

\* impl From<SqlBinaryOperator> for BinaryOperator.
BinaryOperator_from(value) ==
    CASE value = "Plus" -> "Plus" [] value = "Minus" -> "Minus"
      [] value = "Multiply" -> "Multiply" [] value = "Divide" -> "Divide"
      [] value = "Modulo" -> "Modulo" [] value = "StringConcat" -> "StringConcat"
      [] value = "Gt" -> "Gt" [] value = "Lt" -> "Lt" [] value = "GtEq" -> "GtEq"
      [] value = "LtEq" -> "LtEq" [] value = "Spaceship" -> "Spaceship"
      [] value = "Eq" -> "Eq" [] value = "NotEq" -> "NotEq" [] value = "And" -> "And"
      [] value = "Or" -> "Or" [] value = "Xor" -> "Xor"
      [] OTHER -> "unimplemented"

(***************************************************************************)
(* The trees a translator hands to the planner, and the output lists of    *)
(* child plan nodes.  Evaluator slots are absent in a fresh tree; a tree   *)
(* may already hold Reference nodes from an earlier rewrite.               *)
(***************************************************************************)

ColA == ColumnRef(Column("a", "t1", "Integer"))
ColB == ColumnRef(Column("b", "t1", "Bigint"))
ColU == ColumnRef(Column("u", "t1", "UInteger"))
One == Constant("1", "Integer")
Star == Constant("*", "Varchar")
ColS == ColumnRef(Column("s", "t1", "Varchar"))

APlus1 == Binary("Plus", ColA, One, "Integer")
APlusB == Binary("Plus", ColA, ColB, "Bigint")
MulExpr == Binary("Multiply", APlus1, ColB, "Bigint")
NegU == Unary("Minus", ColU, "Integer")
NegA == Unary("Minus", ColA, "Integer")
CountStar == AggCall(FALSE, "Count", <<Star>>, "Integer")
CountEq1 == Binary("Eq", CountStar, One, "Boolean")
BadPlus == Binary("Plus", ColA, Star, "Integer")

Numbers == TableFunction(<<One>>, "numbers")

Trees ==
    { ColA, One, APlus1, APlusB, MulExpr, NegU, NegA, CountStar, CountEq1, BadPlus,
      Unary("Minus", Unary("Plus", ColU, "UInteger"), "Integer"),
      Unary("Minus", Star, "Integer"),
      Unary("Not", Binary("Eq", ColA, ColB, "Boolean"), "Boolean"),
      Unary("Minus", Reference(ColU, 0), "Integer"),
      Unary("Minus", TypeCast(ColU, "USmallint"), "Smallint"),
      Unary("Plus", TypeCast(ColA, "UTinyint"), "Tinyint"),
      Unary("Minus", TypeCast(ColA, "Bigint"), "Bigint"),
      Unary("Plus", AggCall(FALSE, "Sum", <<ColU>>, "UBigint"), "Bigint"),
      AliasName(ColA, "x"),
      AliasName(AliasName(APlusB, "x"), "y"),
      AliasExpr(APlusB, ColB),
      AliasExpr(ColA, CountStar),
      AliasExpr(ColA, APlusB),
      Reference(APlusB, 0),
      Reference(CountStar, 1),
      Binary("Plus", Reference(ColA, 1), ColB, "Bigint"),
      Binary("Eq", One, Reference(CountStar, 0), "Boolean"),
      IfNull(ColA, ColB, "Bigint"),
      NullIf(ColA, ColB, "Bigint"),
      Binary("And", ColA, ColB, "Boolean"),
      Binary("Plus", NegU, APlusB, "Bigint"),
      Binary("Lt", ColU, ColA, "Boolean"),
      Binary("Plus", BadPlus, NegU, "Integer"),
      Binary("Plus", NegU, BadPlus, "Integer"),
      IsNull(FALSE, APlus1),
      TypeCast(NegU, "Bigint"),
      Tuple(<<ColA, APlus1>>),
      AggCall(TRUE, "Sum", <<APlusB>>, "Bigint"),
      Binary("Gt", AggCall(FALSE, "Sum", <<ColU>>, "UBigint"), NegA, "Boolean"),
      In(TRUE, APlusB, <<One, APlus1, ColB>>),
      Between(FALSE, APlus1, NegU, APlusB),
      SubString(ColS, None, APlus1),
      SubString(ColS, APlusB, CountStar),
      Position(Star, Trim(ColS, None, "None")),
      Trim(ColS, Binary("StringConcat", Star, ColS, "Varchar"), "Leading"),
      ScalaFunction(<<APlusB, ColB>>, "greatest", "Bigint"),
      If(Binary("Eq", ColA, ColB, "Boolean"), APlus1, CountStar, "Integer"),
      Coalesce(<<ColB, APlusB, BadPlus, NegU>>, "Bigint"),
      CaseWhen(None, <<<<Binary("Lt", ColA, ColB, "Boolean"), APlus1>>>>, ColB, "Bigint"),
      CaseWhen(ColB, <<<<One, CountStar>>, <<APlusB, NegU>>>>, None, "Integer"),
      AliasName(AliasName(ColA, "x"), "y"),
      AliasName(AliasExpr(APlusB, ColB), "z"),
      AliasExpr(AliasName(ColA, "x"), AliasName(ColB, "y")),
      Binary("Plus", ColA, ColA, "Integer"),
      Numbers,
      AliasName(Numbers, "n"),
      AliasExpr(Numbers, ColB),
      Tuple(<<ColA, Numbers>>),
      Binary("Plus", One, Reference(Numbers, 0), "Integer") }

\* Trees holding the sentinel, as a walker may be handed them.
SentinelTrees ==
    { Empty, AliasName(Empty, "e"), Reference(Empty, 0), Tuple(<<ColA, Empty>>),
      TypeCast(Empty, "Integer"), AliasExpr(ColA, Empty), IsNull(TRUE, Empty) }

OutputPool == { APlus1, ColB, CountStar, IfNull(ColA, ColB, "Bigint") }

RECURSIVE ListsUpTo(_, _)
ListsUpTo(S, n) ==
    IF n = 0 THEN {<<>>}
    ELSE LET shorter == ListsUpTo(S, n - 1)
         IN shorter \cup {Append(l, x) : l \in {m \in shorter : Len(m) = n - 1}, x \in S}

OutputLists == ListsUpTo(OutputPool, MaxOut)

(***************************************************************************)
(* The planner's calls on one tree.                                        *)
(***************************************************************************)

Init ==
    /\ expr \in Trees
    /\ output_exprs \in OutputLists
    /\ factory \in [unsigned_unary : BOOLEAN]
    /\ before = expr
    /\ last = "new"
    /\ result = "none"
    /\ returned = None
    /\ calls = 0

\* Nothing runs after an abort.
Alive == result \notin {"unreachable", "unimplemented"}

TryReference ==
    /\ Alive
    /\ calls < MaxCalls
    /\ IF try_reference_unreachable(expr, output_exprs)
       THEN expr' = expr /\ result' = "unreachable"
       ELSE expr' = try_reference(expr, output_exprs) /\ result' = "()"
    /\ before' = expr
    /\ last' = "try_reference"
    /\ returned' = None
    /\ calls' = calls + 1
    /\ UNCHANGED <<output_exprs, factory>>

BindEvaluator ==
    /\ Alive
    /\ calls < MaxCalls
    /\ LET r == bind_evaluator(expr)
       IN /\ expr' = r.expr
          /\ result' = r.err
    /\ before' = expr
    /\ last' = "bind_evaluator"
    /\ returned' = None
    /\ calls' = calls + 1
    /\ UNCHANGED <<output_exprs, factory>>

HasAggCall ==
    /\ Alive
    /\ result' = has_agg_call(expr)
    /\ before' = expr
    /\ last' = "has_agg_call"
    /\ returned' = None
    /\ UNCHANGED <<expr, output_exprs, calls, factory>>

HasCountStar ==
    /\ Alive
    /\ result' = has_count_star(expr)
    /\ before' = expr
    /\ last' = "has_count_star"
    /\ returned' = None
    /\ UNCHANGED <<expr, output_exprs, calls, factory>>

ReferencedColumns ==
    /\ Alive
    /\ \E only_column_ref \in BOOLEAN :
            LET r == referenced_columns(expr, only_column_ref)
            IN /\ result' = r.err
               /\ returned' = [kind |-> "Vec", only_column_ref |-> only_column_ref,
                               items |-> IF r.err = Ok THEN r.vec ELSE <<>>]
    /\ before' = expr
    /\ last' = "referenced_columns"
    /\ UNCHANGED <<expr, output_exprs, calls, factory>>

Next == TryReference \/ BindEvaluator \/ HasAggCall \/ HasCountStar \/ ReferencedColumns

Spec == Init /\ [][Next]_vars

(***************************************************************************)
(* The pure walkers, applied to any value of the algebra.                  *)
(***************************************************************************)

WalkerInit ==
    /\ expr \in Trees \cup SentinelTrees
    /\ output_exprs = <<>>
    /\ factory = [unsigned_unary |-> FALSE]
    /\ before = expr
    /\ last = "new"
    /\ result = "none"
    /\ returned = None
    /\ calls = 0

ReturnType ==
    /\ Alive
    /\ result' = return_type(expr)
    /\ returned' = None
    /\ before' = expr
    /\ last' = "return_type"
    /\ UNCHANGED <<expr, output_exprs, calls, factory>>

\* The owning form consumes the tree: the caller holds the unpacked expression.
UnpackAlias ==
    /\ Alive
    /\ expr' = unpack_alias(expr)
    /\ returned' = unpack_alias(expr)
    /\ result' = Ok
    /\ before' = expr
    /\ last' = "unpack_alias"
    /\ UNCHANGED <<output_exprs, calls, factory>>

UnpackAliasRef ==
    /\ Alive
    /\ returned' = unpack_alias_ref(expr)
    /\ result' = Ok
    /\ before' = expr
    /\ last' = "unpack_alias_ref"
    /\ UNCHANGED <<expr, output_exprs, calls, factory>>

WalkerNext == ReturnType \/ UnpackAlias \/ UnpackAliasRef

WalkerSpec == WalkerInit /\ [][WalkerNext]_vars

(***************************************************************************)
(* The translator's conversions of a stream of operator tokens.            *)
(***************************************************************************)

OperatorInit ==
    /\ expr = None
    /\ output_exprs = <<>>
    /\ factory = [unsigned_unary |-> FALSE]
    /\ before = None
    /\ last = "new"
    /\ result = "none"
    /\ returned = None
    /\ calls = 0

FromSqlUnaryOperator ==
    /\ Alive
    /\ calls < MaxTokens
    /\ \E token \in SqlUnaryOperator :
            LET op == UnaryOperator_from(token)
            IN /\ before' = [kind |-> "SqlUnaryOperator", token |-> token]
               /\ result' = IF op = "unimplemented" THEN op ELSE Ok
               /\ returned' = IF op = "unimplemented" THEN None
                              ELSE [kind |-> "UnaryOperator", op |-> op]
    /\ last' = "UnaryOperator::from"
    /\ calls' = calls + 1
    /\ UNCHANGED <<expr, output_exprs, factory>>

FromSqlBinaryOperator ==
    /\ Alive
    /\ calls < MaxTokens
    /\ \E token \in SqlBinaryOperator :
            LET op == BinaryOperator_from(token)
            IN /\ before' = [kind |-> "SqlBinaryOperator", token |-> token]
               /\ result' = IF op = "unimplemented" THEN op ELSE Ok
               /\ returned' = IF op = "unimplemented" THEN None
                              ELSE [kind |-> "BinaryOperator", op |-> op]
    /\ last' = "BinaryOperator::from"
    /\ calls' = calls + 1
    /\ UNCHANGED <<expr, output_exprs, factory>>

OperatorNext == FromSqlUnaryOperator \/ FromSqlBinaryOperator

OperatorSpec == OperatorInit /\ [][OperatorNext]_vars

(***************************************************************************)
(* Vocabulary of the properties: the nodes of a tree.                      *)
(***************************************************************************)

RECURSIVE Subtrees(_)
\* Every node of the tree e.
Subtrees(e) == {e} \cup UNION {Subtrees(c) : c \in AllChildren(e)}

\* A node whose return type is undefined, and a tree free of such nodes.
Undefined(e) == e.kind \in {"Empty", "TableFunction"}
Defined(e) == \A n \in Subtrees(e) : ~Undefined(n)

RECURSIVE Reached(_)
\* The nodes of e outside the expr of every Reference and outside alias expressions.
Reached(e) == {e} \cup UNION {Reached(c) : c \in WalkerChildren(e)}

RECURSIVE Occurrences(_, _)
\* Every node of e with the pos of the Reference whose expr it is (-1: not wrapped).
Occurrences(e, wrap) ==
    {[node |-> e, wrap |-> wrap]}
        \cup UNION {Occurrences(c, IF e.kind = "Reference" /\ c = e.expr THEN e.pos ELSE -1) :
                        c \in AllChildren(e)}

\* The 0-based positions of the output entries whose summary is that of e.
MatchingPositions(e, exprs) ==
    {i - 1 : i \in {j \in DOMAIN exprs :
                        summary(output_column(exprs[j])) = summary(output_column(e))}}

Smallest(S) == CHOOSE x \in S : \A y \in S : x <= y

RECURSIVE CastDepth(_)
\* Number of TypeCast wrappers at the top of e.
CastDepth(e) == IF e.kind = "TypeCast" THEN 1 + CastDepth(e.expr) ELSE 0

(***************************************************************************)
(* The reference rewriter.                                                 *)
(***************************************************************************)

Rewritten == last = "try_reference" /\ result = "()"

\* C1 as stated: after try_reference(e, O), every subtree of e whose output-column
\* summary equals that of O[i] is the expr of a Reference node with pos = i, for
\* every matching i.
C1_every_match_wrapped ==
    Rewritten =>
        \A o \in Occurrences(expr, -1) :
            \A i \in MatchingPositions(o.node, output_exprs) : o.wrap = i

\* C1 as amended: after try_reference(e, O), every node outside the expr of every
\* Reference and outside every alias expression whose output-column summary equals
\* that of some entry of O is a Reference whose pos is the smallest matching index.
C1_reached_match_wrapped_first ==
    Rewritten =>
        \A n \in Reached(expr) :
            MatchingPositions(n, output_exprs) # {} =>
                /\ n.kind = "Reference"
                /\ n.pos = Smallest(MatchingPositions(n, output_exprs))

\* A rewrite wrapped a node below the root that two output entries match.
C1_witness ==
    /\ Rewritten
    /\ expr.kind # "Reference"
    /\ \E n \in Reached(expr) :
            /\ n.kind = "Reference"
            /\ Cardinality(MatchingPositions(n, output_exprs)) = 2
            /\ n.pos = 0

PartialBefore == before = MulExpr /\ output_exprs = <<APlus1, ColB>>

\* C2 as stated: rewriting (a + 1) * b against [a + 1, b] keeps the Multiply root,
\* turns its left child into Reference{pos: 0} and wraps no other node.
C2_only_left_wrapped ==
    (Rewritten /\ PartialBefore) =>
        expr = [MulExpr EXCEPT !.left_expr = Reference(APlus1, 0)]

\* C2 as amended: rewriting (a + 1) * b against [a + 1, b] keeps the Multiply root,
\* turns its left child into Reference{a + 1, pos: 0} and its right child, which
\* matches O[1], into Reference{ColumnRef(b), pos: 1}.
C2_both_children_wrapped ==
    (Rewritten /\ PartialBefore) =>
        expr = [MulExpr EXCEPT !.left_expr = Reference(APlus1, 0),
                               !.right_expr = Reference(ColB, 1)]

\* The partial rewrite of (a + 1) * b against [a + 1, b] has run.
C2_witness == Rewritten /\ PartialBefore /\ expr.kind = "Binary"

\* C3: a node whose summary matches an output entry is replaced by
\* Reference{expr: the node unchanged, pos: smallest matching index}, pos < |O|;
\* a + 1 against [a + 1, b] becomes Reference{a + 1, 0}.
C3_first_match_wins ==
    (Rewritten /\ MatchingPositions(before, output_exprs) # {}) =>
        /\ expr = Reference(before, Smallest(MatchingPositions(before, output_exprs)))
        /\ expr.pos < Len(output_exprs)
        /\ (before = APlus1 /\ output_exprs = <<APlus1, ColB>>) => expr = Reference(APlus1, 0)

\* A matching root was wrapped whole although one of its children matches too.
C3_witness ==
    /\ Rewritten
    /\ MatchingPositions(before, output_exprs) # {}
    /\ \E c \in WalkerChildren(before) : MatchingPositions(c, output_exprs) # {}
    /\ expr.kind = "Reference" /\ expr.expr = before

(***************************************************************************)
(* The evaluator binder.                                                   *)
(***************************************************************************)

Bound == last = "bind_evaluator" /\ result = Ok

\* Operand types agree and are the type of the evaluator attached to the node.
OperandsEqualised(n) ==
    /\ return_type(n.left_expr) = return_type(n.right_expr)
    /\ n.evaluator = [kind |-> "BinaryEvaluator", ty |-> return_type(n.left_expr),
                      op |-> n.op]

\* C4 as stated: after a successful bind_evaluator every Binary node of the tree,
\* those inside the expr of a Reference or inside an alias expression included, has
\* operands of one return type, the type handed to the evaluator factory.
C4_every_binary_equalised ==
    Bound => \A n \in Subtrees(expr) : n.kind = "Binary" => OperandsEqualised(n)

\* C4 as amended: after a successful bind_evaluator every Binary node outside the
\* expr of every Reference and outside every alias expression has operands of one
\* return type, the type handed to the evaluator factory for that node.
C4_reached_binary_equalised ==
    Bound => \A n \in Reached(expr) : n.kind = "Binary" => OperandsEqualised(n)

\* A successful binding cast an operand of a Binary node below the root.
C4_witness ==
    /\ Bound
    /\ \E n \in Reached(expr) \ {expr} :
            n.kind = "Binary" /\ n.left_expr.kind = "TypeCast" /\ OperandsEqualised(n)

\* C5: binding Unary{Minus, ColumnRef(u: UInteger), ty: Integer} succeeds, wraps the
\* operand in TypeCast{ty: Integer} and attaches the evaluator unary(Integer, Minus).
C5_unsigned_unary_signed_evaluator ==
    (last = "bind_evaluator" /\ before = NegU) =>
        /\ result = Ok
        /\ expr = [NegU EXCEPT !.expr = TypeCast(ColU, "Integer"),
                               !.evaluator = [kind |-> "UnaryEvaluator", ty |-> "Integer",
                                              op |-> "Minus"]]

SignedCounterpart ==
    [t \in UnsignedTypes |->
        CASE t = "UTinyint" -> "Tinyint" [] t = "USmallint" -> "Smallint"
          [] t = "UInteger" -> "Integer" [] t = "UBigint" -> "Bigint"]

\* C6: after a successful bind_evaluator the operand of every Unary node reached has
\* a return type that is not unsigned; an unsigned operand is wrapped in a TypeCast
\* to the signed type of its width, any other operand is left unwrapped.
C6_unary_operand_signed ==
    Bound =>
        /\ \A n \in Reached(expr) :
                n.kind = "Unary" => ~is_unsigned_numeric(return_type(n.expr))
        /\ before.kind = "Unary" =>
                LET t == return_type(before.expr)
                IN IF t \in UnsignedTypes
                   THEN /\ expr.expr.kind = "TypeCast"
                        /\ expr.expr.ty = SignedCounterpart[t]
                        /\ return_type(expr.expr.expr) = t
                        /\ CastDepth(expr.expr) = CastDepth(before.expr) + 1
                   ELSE /\ return_type(expr.expr) = t
                        /\ CastDepth(expr.expr) = CastDepth(before.expr)

\* A successful binding wrapped the unsigned operand of a Unary root.
C6_witness ==
    /\ Bound
    /\ before.kind = "Unary"
    /\ return_type(before.expr) = "USmallint"
    /\ expr.expr.kind = "TypeCast"
    /\ expr.expr.ty = "Smallint"

\* The operand `after` is the operand `was` bound and, iff its return type differs
\* from ty, wrapped in one TypeCast to ty.
CastIffDiffers(was, after, ty) ==
    IF return_type(was) # ty
    THEN /\ after.kind = "TypeCast"
         /\ after.ty = ty
         /\ return_type(after.expr) = return_type(was)
         /\ CastDepth(after) = CastDepth(was) + 1
    ELSE /\ return_type(after) = ty
         /\ CastDepth(after) = CastDepth(was)

\* C7: binding a Binary node wraps in TypeCast{ty: t} exactly the operands whose
\* return type differs from t = max_logical_type of the operand types, sets the
\* evaluator to binary(t, op) and leaves the node's op and ty unchanged; a + b with
\* a: Integer and b: Bigint becomes cast(a as Bigint) + b with binary(Bigint, Plus).
C7_binary_binding ==
    (last = "bind_evaluator" /\ before.kind = "Binary") =>
        /\ expr.kind = "Binary" /\ expr.op = before.op /\ expr.ty = before.ty
        /\ result = Ok =>
            LET t == max_logical_type(return_type(before.left_expr),
                                      return_type(before.right_expr))
            IN /\ CastIffDiffers(before.left_expr, expr.left_expr, t)
               /\ CastIffDiffers(before.right_expr, expr.right_expr, t)
               /\ expr.evaluator = [kind |-> "BinaryEvaluator", ty |-> t, op |-> expr.op]
        /\ (result = Ok /\ before = APlusB) =>
            expr = [APlusB EXCEPT !.left_expr = TypeCast(ColA, "Bigint"),
                                  !.evaluator = [kind |-> "BinaryEvaluator",
                                                 ty |-> "Bigint", op |-> "Plus"]]

\* The implicit widening of a + b has run: the left operand only was cast.
C7_witness ==
    /\ Bound
    /\ before = APlusB
    /\ expr.left_expr = TypeCast(ColA, "Bigint")
    /\ expr.right_expr = ColB

\* C8: bind_evaluator is idempotent: a second call on a successfully bound tree
\* succeeds and leaves the tree, evaluator slots and casts included, as it was.
C8_bind_idempotent ==
    [][(Bound /\ last' = "bind_evaluator") => (result' = Ok /\ expr' = expr)]_vars

(***************************************************************************)
(* The aggregate walkers.                                                  *)
(***************************************************************************)

IsCountStar(n) ==
    n.kind = "AggCall" /\ n.agg_kind = "Count" /\ n.args = <<Star>>

AsResult(b) == IF b THEN "true" ELSE "false"

\* C9: has_agg_call(e) returns true iff the tree e holds an AggCall node, also below
\* a Reference or inside an alias expression, and never aborts on a tree free of
\* Empty and TableFunction.
C9_has_agg_call_iff_agg_node ==
    (last = "has_agg_call" /\ Defined(expr)) =>
        result = AsResult(\E n \in Subtrees(expr) : n.kind = "AggCall")

\* C10: has_count_star(e) returns true iff the tree e holds an AggCall of the
\* Count(*) form; it is true of Count(*) = 1.
C10_has_count_star_detects ==
    (last = "has_count_star" /\ Defined(expr)) =>
        result = AsResult(\E n \in Subtrees(expr) : IsCountStar(n))

(***************************************************************************)
(* The pure walkers.                                                       *)
(***************************************************************************)

\* The sub-expressions held in the fields of node e, in field order.
FieldChildren(e) ==
    CASE e.kind \in {"ColumnRef", "Constant", "Empty"} -> <<>>
      [] e.kind = "Reference" -> <<e.expr>>
      [] e.kind = "Alias" /\ e.alias.kind = "Expr" -> <<e.expr, e.alias.expr>>
      [] OTHER -> collect_children(e)

RECURSIVE ColumnRefLeaves(_), LeavesOfEach(_)
\* The columns of the ColumnRef leaves of e in pre-order, one per occurrence.
ColumnRefLeaves(e) ==
    IF e.kind = "ColumnRef" THEN <<e.col>> ELSE LeavesOfEach(FieldChildren(e))

LeavesOfEach(children) ==
    IF children = <<>> THEN <<>>
    ELSE ColumnRefLeaves(Head(children)) \o LeavesOfEach(Tail(children))

\* C11: referenced_columns(e, only_column_ref = true) returns the ColumnRef leaves of
\* e in pre-order with duplicates preserved, for every tree a caller can hold, trees
\* with Reference nodes and leaves inside an expression alias included.
C11_columns_are_the_leaves ==
    (last = "referenced_columns" /\ returned.only_column_ref) =>
        /\ result = Ok
        /\ returned.items = ColumnRefLeaves(expr)

RECURSIVE Unwrapped(_)
\* The node reached by following the expr field of Alias and Reference wrappers.
Unwrapped(e) == IF e.kind \in {"Alias", "Reference"} THEN Unwrapped(e.expr) ELSE e

\* The return type the table of variants gives for a node that is no wrapper.
DocumentedType(n) ==
    IF n.kind = "Constant" THEN n.value.logical_type
    ELSE IF n.kind = "ColumnRef" THEN n.col.datatype
    ELSE IF n.kind = "ScalaFunction" THEN n.inner.return_type
    ELSE IF "ty" \in DOMAIN n THEN n.ty
    ELSE [IsNull |-> "Boolean", In |-> "Boolean", Between |-> "Boolean",
          SubString |-> "Varchar", Trim |-> "Varchar", Position |-> "Integer",
          Tuple |-> "Tuple", Empty |-> "unreachable",
          TableFunction |-> "unreachable"][n.kind]

\* C12: return_type returns the type the table of variants gives for the node reached
\* through the Alias and Reference wrappers; it aborts exactly when that node is
\* Empty or TableFunction, hence never on a tree free of both.
C12_return_type_total ==
    last = "return_type" =>
        /\ result = DocumentedType(Unwrapped(before))
        /\ result = "unreachable" <=> Undefined(Unwrapped(before))
        /\ Defined(before) => result # "unreachable"

\* return_type answered through a Reference wrapper with the type of the inner node.
C12_witness ==
    /\ last = "return_type"
    /\ before.kind = "Reference"
    /\ before.expr.kind = "Binary"
    /\ result = before.expr.ty

HasExprAlias(e) == \E n \in Subtrees(e) : n.kind = "Alias" /\ n.alias.kind = "Expr"

RECURSIVE AliasCore(_)
\* The node reached by following the expr field of every Alias wrapper.
AliasCore(e) == IF e.kind = "Alias" THEN AliasCore(e.expr) ELSE e

\* No node of e is the sentinel.
EmptyFree(e) == \A n \in Subtrees(e) : n.kind # "Empty"

Unpacked == last = "unpack_alias" /\ EmptyFree(before)

\* C13 as stated: for every e without an expression alias, e wrapped in name aliases
\* included, output_name(unpack_alias(e)) = output_name(e).
C13_unpack_keeps_name ==
    (Unpacked /\ ~HasExprAlias(before)) => output_name(returned) = output_name(before)

\* C13 as amended: for every e without an expression alias, if e is no Alias node
\* then output_name(unpack_alias(e)) = output_name(e); if e is wrapped in name
\* aliases then output_name(e) is the outermost alias name and
\* output_name(unpack_alias(e)) is the name of the innermost aliased expression.
C13_unpack_names_the_core ==
    (Unpacked /\ ~HasExprAlias(before)) =>
        IF before.kind = "Alias"
        THEN /\ output_name(before) = before.alias.name
             /\ output_name(returned) = output_name(AliasCore(before))
        ELSE output_name(returned) = output_name(before)

\* Two nested name aliases were unpacked: the name of the result is the rendering
\* of the aliased expression, not the alias name.
C13_witness ==
    /\ Unpacked
    /\ before = AliasName(AliasName(APlusB, "x"), "y")
    /\ returned = APlusB
    /\ output_name(before) = "y"
    /\ output_name(returned) # "y"

\* C14: unpack_alias and unpack_alias_ref return the innermost non-alias expression
\* reached by following the expr field of each Alias, of name and of expression
\* kind; the result is no Alias, both forms agree, and unpacking
\* Alias{Alias{ColumnRef(a), "x"}, "y"} gives ColumnRef(a).
C14_unpack_follows_expr ==
    (last \in {"unpack_alias", "unpack_alias_ref"} /\ EmptyFree(before)) =>
        /\ returned = AliasCore(before)
        /\ returned.kind # "Alias"
        /\ unpack_alias(before) = unpack_alias_ref(before)
        /\ before = AliasName(AliasName(ColA, "x"), "y") => returned = ColA

(***************************************************************************)
(* The operator conversions.                                               *)
(***************************************************************************)

SupportedUnary == {"Plus", "Minus", "Not"}
SupportedBinary ==
    {"Plus", "Minus", "Multiply", "Divide", "Modulo", "StringConcat", "Gt", "Lt", "GtEq",
     "LtEq", "Spaceship", "Eq", "NotEq", "And", "Or", "Xor"}

\* The conversion of before.token gave the operator of the same name, or the
\* Unsupported error when the token is outside the supported set.
ConvertedOrUnsupported(supported, enum) ==
    IF before.token \in supported
    THEN result = Ok /\ returned = [kind |-> enum, op |-> before.token]
    ELSE result = "Unsupported"

\* C15: the conversions map each supported parser token to the operator of the same
\* name and, for every other token, return the Unsupported error to the caller
\* instead of aborting.
C15_unknown_token_unsupported ==
    /\ last = "UnaryOperator::from" => ConvertedOrUnsupported(SupportedUnary, "UnaryOperator")
    /\ last = "BinaryOperator::from" =>
            ConvertedOrUnsupported(SupportedBinary, "BinaryOperator")

(***************************************************************************)
(* The rewriter and the binder together.                                   *)
(***************************************************************************)

Operators(S) == {n \in S : n.kind \in {"Binary", "Unary"}}
References(S) == {n \in S : n.kind = "Reference"}

\* C16 as stated: after a successful bind_evaluator every Binary and every Unary node
\* of the tree has its evaluator slot present, also when try_reference ran first and
\* such nodes lie inside the expr of a Reference.
C16_every_slot_present ==
    Bound => \A n \in Operators(Subtrees(expr)) : IsSome(n.evaluator)

\* C16 as amended: after a successful bind_evaluator every Binary and every Unary node
\* outside the expr of every Reference and outside every alias expression has its
\* evaluator slot present; the binder treats a Reference as a leaf and leaves the
\* Reference nodes, with the operators inside them, as they were.
C16_reached_slot_present ==
    Bound =>
        /\ \A n \in Operators(Reached(expr)) : IsSome(n.evaluator)
        /\ References(Reached(expr)) = References(Reached(before))

\* Rewriting came first: the root operator was bound over a Reference whose expr
\* holds an operator that is still unbound.
C16_witness ==
    /\ Bound
    /\ calls = 2
    /\ expr.kind = "Binary"
    /\ IsSome(expr.evaluator)
    /\ \E r \in References(Reached(expr)) :
            \E n \in Operators(Subtrees(r.expr)) : ~IsSome(n.evaluator)

\* C17: try_reference leaves the Reference nodes a tree already holds as they are,
\* none of them wrapped in a further Reference, so that a second try_reference with
\* the same output list leaves the tree of the first unchanged.
C17_references_left_intact ==
    [][(last' = "try_reference" /\ result' = "()") =>
            /\ \A n \in References(Subtrees(expr')) :
                    n.expr.kind = "Reference" => n \in Subtrees(expr)
            /\ Rewritten => expr' = expr]_vars

Returned == last \in {"try_reference", "bind_evaluator"} /\ result # "unreachable"

\* C18: after every try_reference and bind_evaluator call that returns, with Ok or
\* with an error, on a tree free of Empty, the tree the caller holds is free of
\* Empty: the sentinel lives only inside one wrap.
C18_empty_never_escapes ==
    (Returned /\ EmptyFree(before)) => EmptyFree(expr)

\* A binding that failed after the rewrite: the tree returned holds a Reference and a
\* TypeCast, both put in place by a wrap through the sentinel.
C18_witness ==
    /\ last = "bind_evaluator"
    /\ result = "UnsupportedOperator"
    /\ References(Reached(expr)) # {}
    /\ \E n \in Reached(expr) : n.kind = "TypeCast" /\ n \notin Subtrees(before)
    /\ EmptyFree(expr)

ExprFields ==
    {"expr", "left_expr", "right_expr", "condition", "in_expr", "for_expr", "from_expr",
     "trim_what_expr", "operand_expr", "else_expr"}

BindFailed == last = "bind_evaluator" /\ result \in {"TypeMismatch", "UnsupportedOperator"}

\* C19 as stated: bind_evaluator returns Ok only when every Binary and Unary node it
\* reaches was bound, and when binding a sub-node fails it returns the error and the
\* tree carries no partial result: no slot filled, no TypeCast inserted by the call.
C19_no_partial_result ==
    /\ Bound => \A n \in Operators(Reached(expr)) : IsSome(n.evaluator)
    /\ BindFailed => expr = before

RECURSIVE OnlyBindingResults(_, _)
\* a is o up to evaluator slots filled and TypeCast wrappers inserted.
OnlyBindingResults(a, o) ==
    \/ a = o
    \/ a.kind = "TypeCast" /\ OnlyBindingResults(a.expr, o)
    \/ /\ a.kind = o.kind
       /\ DOMAIN a = DOMAIN o
       /\ \A f \in DOMAIN a :
            IF f \in ExprFields /\ IsSome(o[f]) THEN OnlyBindingResults(a[f], o[f])
            ELSE IF f \in {"args", "exprs"}
                THEN /\ Len(a[f]) = Len(o[f])
                     /\ \A i \in DOMAIN a[f] : OnlyBindingResults(a[f][i], o[f][i])
            ELSE IF f = "expr_pairs"
                THEN /\ Len(a[f]) = Len(o[f])
                     /\ \A i \in DOMAIN a[f] : \A j \in {1, 2} :
                            OnlyBindingResults(a[f][i][j], o[f][i][j])
            ELSE f = "evaluator" \/ a[f] = o[f]

\* C19 as amended: bind_evaluator returns Ok only when every Binary and Unary node it
\* reaches was bound, and when binding a sub-node fails it returns that error,
\* TypeMismatch or UnsupportedOperator; the tree it leaves then differs from the
\* tree it was given by the slots filled and the casts inserted before the failure.
C19_ok_only_when_all_bound ==
    (last = "bind_evaluator" /\ result # "unreachable") =>
        /\ result \in {Ok, "TypeMismatch", "UnsupportedOperator"}
        /\ result = Ok => \A n \in Operators(Reached(expr)) : IsSome(n.evaluator)
        /\ OnlyBindingResults(expr, before)

\* A binding failed with TypeMismatch after it had bound an earlier sub-node.
C19_witness ==
    /\ BindFailed
    /\ result = "TypeMismatch"
    /\ \E n \in Operators(Reached(expr)) : IsSome(n.evaluator) /\ n \notin Subtrees(before)
    /\ \E n \in Operators(Reached(expr)) : ~IsSome(n.evaluator)

RECURSIVE OnlyReferencesInserted(_, _)
\* Removing the Reference wrappers that a has and o has not, keeping their expr,
\* gives o.
OnlyReferencesInserted(a, o) ==
    \/ a = o
    \/ a.kind = "Reference" /\ OnlyReferencesInserted(a.expr, o)
    \/ /\ a.kind = o.kind
       /\ a.kind # "Reference"
       /\ DOMAIN a = DOMAIN o
       /\ \A f \in DOMAIN a :
            IF f \in ExprFields /\ IsSome(o[f]) THEN OnlyReferencesInserted(a[f], o[f])
            ELSE IF f \in {"args", "exprs"}
                THEN /\ Len(a[f]) = Len(o[f])
                     /\ \A i \in DOMAIN a[f] : OnlyReferencesInserted(a[f][i], o[f][i])
            ELSE IF f = "expr_pairs"
                THEN /\ Len(a[f]) = Len(o[f])
                     /\ \A i \in DOMAIN a[f] : \A j \in {1, 2} :
                            OnlyReferencesInserted(a[f][i][j], o[f][i][j])
            ELSE a[f] = o[f]

\* C20: on a tree free of Empty and TableFunction, try_reference changes neither
\* output_name nor return_type, and all it changes in the tree is the insertion of
\* Reference wrappers around sub-expressions left as they were.
C20_rewrite_preserves_metadata ==
    (Rewritten /\ Defined(before)) =>
        /\ output_name(expr) = output_name(before)
        /\ return_type(expr) = return_type(before)
        /\ OnlyReferencesInserted(expr, before)

\* A rewrite wrapped a sub-expression below a root that it kept.
C20_witness ==
    /\ Rewritten
    /\ expr.kind = before.kind
    /\ expr # before
    /\ \E r \in References(Reached(expr)) : r \notin Subtrees(before)

(***************************************************************************)
(* The matching key across binding.                                        *)
(***************************************************************************)

RECURSIVE ReferenceSites(_, _)
\* The Reference nodes of t, each by the path of field indexes that leads to it from
\* the root, with its pos.
ReferenceSites(t, path) ==
    (IF t.kind = "Reference" THEN {[path |-> path, pos |-> t.pos]} ELSE {})
        \cup UNION {ReferenceSites(FieldChildren(t)[i], Append(path, i)) :
                        i \in DOMAIN FieldChildren(t)}

\* Where try_reference(e, exprs) leaves a Reference, and to which output position.
Wraps(e, exprs) == ReferenceSites(try_reference(e, exprs), <<>>)

\* The rewriter treats the trees a and b alike against exprs: it aborts on both or
\* on neither, and wraps the same subtrees at the same positions.
SameWraps(a, b, exprs) ==
    /\ try_reference_unreachable(a, exprs) = try_reference_unreachable(b, exprs)
    /\ ~try_reference_unreachable(a, exprs) => Wraps(a, exprs) = Wraps(b, exprs)

\* The binder has no implicit cast to insert in e: the operands of every Binary node
\* already have one return type and no Unary node has an unsigned operand.
NoCastNeeded(e) ==
    \A n \in Subtrees(e) :
        /\ n.kind = "Binary" => return_type(n.left_expr) = return_type(n.right_expr)
        /\ n.kind = "Unary" => ~is_unsigned_numeric(return_type(n.expr))

\* C21 as stated: a successful bind_evaluator leaves output_name of the tree as it
\* was, and try_reference against the same unbound output list wraps the same
\* subtrees at the same positions on the tree before and after binding.
C21_bind_keeps_matching_key ==
    Bound =>
        /\ output_name(expr) = output_name(before)
        /\ SameWraps(before, expr, output_exprs)

\* C21 as amended: a successful bind_evaluator on a tree in which it has no implicit
\* cast to insert leaves output_name of the tree as it was, and try_reference against
\* the same unbound output list wraps the same subtrees at the same positions on the
\* tree before and after binding.
C21_bind_without_cast_keeps_key ==
    (Bound /\ NoCastNeeded(before)) =>
        /\ output_name(expr) = output_name(before)
        /\ SameWraps(before, expr, output_exprs)

\* A tree with a Binary node was bound without a cast, binding changed it, and the
\* rewriter wraps one of its proper subtrees.
C21_witness ==
    /\ Bound
    /\ NoCastNeeded(before)
    /\ expr # before
    /\ \E n \in Subtrees(before) : n.kind = "Binary"
    /\ ~try_reference_unreachable(expr, output_exprs)
    /\ Wraps(expr, output_exprs) # {}
    /\ try_reference(expr, output_exprs).kind # "Reference"

(***************************************************************************)
(* What a match identifies.                                                *)
(***************************************************************************)

\* e holds neither an Alias nor a Reference node.
PlainTree(e) == \A n \in Subtrees(e) : n.kind \notin {"Alias", "Reference"}

RECURSIVE EqualUpToEvaluators(_, _)
\* a and o are structurally equal once their evaluator slots are left out.
EqualUpToEvaluators(a, o) ==
    /\ a.kind = o.kind
    /\ DOMAIN a = DOMAIN o
    /\ \A f \in DOMAIN a :
            IF f \in ExprFields /\ IsSome(a[f]) /\ IsSome(o[f])
                THEN EqualUpToEvaluators(a[f], o[f])
            ELSE IF f \in {"args", "exprs"}
                THEN /\ Len(a[f]) = Len(o[f])
                     /\ \A i \in DOMAIN a[f] : EqualUpToEvaluators(a[f][i], o[f][i])
            ELSE IF f = "expr_pairs"
                THEN /\ Len(a[f]) = Len(o[f])
                     /\ \A i \in DOMAIN a[f] : \A j \in {1, 2} :
                            EqualUpToEvaluators(a[f][i][j], o[f][i][j])
            ELSE f = "evaluator" \/ a[f] = o[f]

\* s and o have the same variant and structurally equal children, evaluator slots
\* left out.
SameComputation(s, o) ==
    /\ s.kind = o.kind
    /\ Len(FieldChildren(s)) = Len(FieldChildren(o))
    /\ \A i \in DOMAIN FieldChildren(s) :
            EqualUpToEvaluators(FieldChildren(s)[i], FieldChildren(o)[i])

\* C22: when the tree and the output entries hold neither Alias nor Reference nodes,
\* every Reference{expr: s, pos: i} that try_reference leaves in the tree has s of the
\* variant of O[i] with structurally equal children; a NullIf{a, b} is never wrapped
\* as a reference to an entry IfNull{a, b}, nor an IfNull as a reference to a NullIf.
C22_match_is_same_computation ==
    (/\ Rewritten
     /\ PlainTree(before)
     /\ \A i \in DOMAIN output_exprs : PlainTree(output_exprs[i])) =>
        \A r \in References(Subtrees(expr)) :
            SameComputation(r.expr, output_exprs[r.pos + 1])

====
